---- MODULE Spec2Model ----
(***************************************************************************)
(* A model of monaifbs/src/train/monai_dynunet_training.py: the file-list  *)
(* parser, the loss selection, the kernel/stride schedule derivation of    *)
(* run_training, the iterations of DynUNetTrainer and DynUNetEvaluator,    *)
(* and the pipeline from the command line to trainer.run().                *)
(*                                                                         *)
(* Numbers.  Python floats are modelled exactly as rationals               *)
(* [num |-> n, den |-> d] with d > 0.  Spacings are whole multiples of a   *)
(* common unit (the schedule depends on their ratios only); doubling them  *)
(* and halving the sizes is exact in binary floating point, and a float    *)
(* quotient sp / m compares with 2 as the exact quotient does.             *)
(***************************************************************************)
EXTENDS Integers, Sequences, FiniteSets, TLC

VARIABLES
    pc,             \* position of the modelled function
    \* ---- run_training, lines 394-408
    spacing,        \* config_info["training"]["spacing"][:2]
    patch_size,     \* config_info["training"]["inplane_size"]
    spacings,       \* tracked spacings
    sizes,          \* tracked sizes (rationals)
    spacing_ratio,  \* the level's ratios (rationals)
    stride,         \* the level's stride
    kernel,         \* the level's kernel
    strides,
    kernels,
    run,            \* 1: first derivation, 2: the derivation repeated on the same input
    first,          \* <<strides, kernels>> of the first derivation, <<>> before
    sweep,          \* number of the input being derived when inputs are swept, else 0
    \* ---- create_data_list_of_dictionaries, lines 81-111
    disk,           \* the file system: path |-> "file", "dir" or "none"
    data,           \* the lines of input_file read so far, as the iterator gave them
    current_f,      \* the line's first field
    current_s,      \* the line's second field
    full_list,
    stdout,         \* what was printed
    result,         \* <<>>: nothing returned; <<l>>: the list l was returned
    \* ---- choose_loss_function, lines 114-182
    number_out_channels,
    config_dict,    \* config_dict['training']: key |-> value
    do_sigmoid,
    do_softmax,
    pow,
    loss_fn,        \* the loss constructed: [class, kwargs]; NoLoss before and on failure
    \* ---- DynUNetTrainer._iteration, lines 535-557
    predictions,    \* the heads the network returned
    targets,        \* the batch's label
    loss_calls,     \* the calls of self.loss_function: [pred, label, value]
    loss,           \* the iteration's loss (a rational)
    \* ---- the objects both engines work on
    network,        \* [mode, grad, params]
    optimizer,      \* [steps, applied]
    trace,          \* the calls the iteration made, in order
    \* ---- DynUNetEvaluator._iteration, lines 458-481
    inputs,         \* the validation batch's image, over its axes 2 and 3
    inferer,        \* self.inferer with self.network, a function on tensors
    infer_calls,    \* the tensors the inferer was called on, in order
    pred,           \* the prediction returned (rationals)
    \* ---- __main__ and run_training, lines 185-578 and 635-662
    args,           \* the parsed command line
    files,          \* what the command line's paths are on disk
    config,         \* config / config_info, <<>> before the file is loaded
    frame,          \* the local variables of run_training: name |-> value
    list_lines,     \* the lines of the two file lists, as far as they were read
    log             \* the blocks of the pipeline that ran, in order

ksVars == <<spacing, patch_size, spacings, sizes, spacing_ratio, stride, kernel,
            strides, kernels, run, first, sweep>>

flVars == <<disk, data, current_f, current_s, full_list, stdout, result>>

lossVars == <<number_out_channels, config_dict, do_sigmoid, do_softmax, pow, loss_fn>>

trainVars == <<predictions, targets, loss_calls, loss>>

engineVars == <<network, optimizer, trace>>

evalVars == <<inputs, inferer, infer_calls, pred>>

mainVars == <<args, files, config, frame, list_lines, log>>

vars == <<pc, ksVars, flVars, lossVars, trainVars, engineVars, evalVars, mainVars>>

----------------------------------------------------------------------------
(* Bounds of the model. *)

\* largest in-plane patch size drawn (the spec's example uses 64)
MaxSize == 64

\* largest spacing drawn, in spacing units (ratios 1, 1.5, 2, 3 all occur)
MaxSpacing == 3

\* cap on the number of recorded levels (never reached: the derivation ends first)
MaxLevels == 8

\* the in-plane sizes of the degenerate configurations run from -MaxNegSize
\* to MaxNegSize
MaxNegSize == 9

\* most lines read from a file list
MaxLines == 2

\* most characters of a line, its newline not counted
MaxLineLen == 3

\* most output channels (len(seg_labels))
MaxChannels == 3

\* largest pow_dice drawn
MaxPow == 2

\* most prediction heads the network returns
MaxHeads == 3

\* largest side of a head's spatial shape
MaxDim == 2

\* largest value self.loss_function returns, in loss units
MaxLossVal == 2

\* largest batch size configured
MaxBatch == 2

\* largest validation_every_n_epochs configured
MaxEveryN == 2

----------------------------------------------------------------------------
(* Each specification below runs one function of the file; the variables of *)
(* the functions it does not run keep these values.                         *)

IdleFL ==
    /\ disk = <<>>
    /\ data = <<>>
    /\ current_f = <<>>
    /\ current_s = <<>>
    /\ full_list = <<>>
    /\ stdout = <<>>
    /\ result = <<>>

\* no loss function
NoLoss == [class |-> "None", kwargs |-> <<>>]

IdleLoss ==
    /\ number_out_channels = 0
    /\ config_dict = <<>>
    /\ do_sigmoid = FALSE
    /\ do_softmax = FALSE
    /\ pow = 0
    /\ loss_fn = NoLoss

IdleTrain ==
    /\ predictions = <<>>
    /\ targets = <<>>
    /\ loss_calls = <<>>
    /\ loss = <<>>

IdleEngine ==
    /\ network = <<>>
    /\ optimizer = <<>>
    /\ trace = <<>>

IdleEval ==
    /\ inputs = <<>>
    /\ inferer = ""
    /\ infer_calls = <<>>
    /\ pred = <<>>

IdleMain ==
    /\ args = <<>>
    /\ files = <<>>
    /\ config = <<>>
    /\ frame = <<>>
    /\ list_lines = <<>>
    /\ log = <<>>

IdleKS ==
    /\ spacing = <<>>
    /\ patch_size = <<>>
    /\ spacings = <<>>
    /\ sizes = <<>>
    /\ spacing_ratio = <<>>
    /\ stride = <<>>
    /\ kernel = <<>>
    /\ strides = <<>>
    /\ kernels = <<>>
    /\ run = 1
    /\ first = <<>>
    /\ sweep = 0

----------------------------------------------------------------------------
(* Rationals. *)

Rat(n, d) == [num |-> n, den |-> d]

\* i / j for a rational i and j in {1, 2}, in lowest terms (den stays a power of 2)
RatDiv(q, j) ==
    IF j = 1 THEN q
    ELSE IF q.num % 2 = 0 THEN Rat(q.num \div 2, q.den)
         ELSE Rat(q.num, 2 * q.den)

\* q <= c and q >= c for an integer c (den > 0)
RatLE(q, c) == q.num <= c * q.den
RatGE(q, c) == q.num >= c * q.den

----------------------------------------------------------------------------
(* create_data_list_of_dictionaries, lines 81-111.  Text is a sequence of   *)
(* one-character strings; the file is read line by line, so the lines are   *)
(* drawn as the iterator reaches them.                                      *)

NL == "\n"

Comma == ","

\* the characters of a path in the model
PathChars == {"a", "b"}

\* the paths the file system may hold; every other path is missing
DiskPaths == {<<c>> : c \in PathChars}

Kinds == {"file", "dir", "none"}

\* a line's text before its newline
Contents == UNION {[1..n -> PathChars \cup {Comma}] : n \in 0..MaxLineLen}

\* what iterating over the file yields: a line ends with its newline, except
\* a last line that has none (and is then not empty)
RawLines == {c \o <<NL>> : c \in Contents} \cup (Contents \ {<<>>})

Last(q) == q[Len(q)]

Front(q) == SubSeq(q, 1, Len(q) - 1)

\* a slip: the newline left on the line
RstripSkipped(line) == line

\* str.rstrip('\n'): every trailing newline removed
RECURSIVE Rstrip(_)
Rstrip(line) ==
    IF line # <<>> /\ Last(line) = NL THEN Rstrip(Front(line)) ELSE line

\* line 95: line.rstrip('\n') if '\n' in line else line
StripNewline(line) ==
    IF \E i \in 1..Len(line) : line[i] = NL THEN Rstrip(line) ELSE line

\* a slip: line.split(',', 1), which cuts at the first comma only
RECURSIVE SplitOnce(_)
SplitOnce(line) ==
    IF line = <<>> THEN <<<<>>>>
    ELSE IF line[1] = Comma THEN <<<<>>, Tail(line)>>
    ELSE LET rest == SplitOnce(Tail(line))
         IN  <<<<line[1]>> \o rest[1]>> \o Tail(rest)

\* line 98: line.split(','), the fields between the commas
RECURSIVE Split(_)
Split(line) ==
    IF line = <<>> THEN <<<<>>>>
    ELSE LET rest == Split(Tail(line))
         IN  IF line[1] = Comma THEN <<<<>>>> \o rest
             ELSE <<<<line[1]>> \o rest[1]>> \o Tail(rest)

\* os.path.isfile
IsFile(path) == path \in DOMAIN disk /\ disk[path] = "file"

\* os.path.exists
Exists(path) == path \in DOMAIN disk /\ disk[path] # "none"

\* a slip: "or" for "and"
EitherIsFile(f, s) == IsFile(f) \/ IsFile(s)

\* line 106: os.path.isfile(current_f) and os.path.isfile(current_s)
BothAreFiles(f, s) == IsFile(f) /\ IsFile(s)

\* lines 100-104: the two messages printed for a malformed line
Diagnostic == <<"ValueError", "Incorrect format">>

\* line 93: the iterator can give another line only after a line that ended
\* with a newline
MoreLines(read) == IF read = <<>> THEN TRUE ELSE Last(Last(read)) = NL

\* lines 91-92
InitFL ==
    /\ pc = "reading"
    /\ disk \in [DiskPaths -> Kinds]
    /\ data = <<>>
    /\ current_f = <<>>
    /\ current_s = <<>>
    /\ full_list = <<>>
    /\ stdout = <<>>
    /\ result = <<>>
    /\ IdleKS
    /\ IdleLoss
    /\ IdleTrain
    /\ IdleEngine
    /\ IdleEval
    /\ IdleMain

\* a slip: the two paths looked up before the fields are counted
ReadLineFilesFirst ==
    /\ pc = "reading"
    /\ Len(data) < MaxLines
    /\ MoreLines(data)
    /\ \E raw \in RawLines :
          LET line == StripNewline(raw)
              fields == Split(line)
              missing == IF Len(fields) >= 2 THEN ~BothAreFiles(fields[1], fields[2])
                         ELSE FALSE
          IN  /\ data' = Append(data, raw)
              /\ IF missing
                 THEN /\ pc' = "FileNotFoundError"
                      /\ UNCHANGED <<current_f, current_s, full_list, stdout>>
                 ELSE IF Len(fields) # 2
                 THEN /\ stdout' = stdout \o Diagnostic
                      /\ pc' = "exit"
                      /\ UNCHANGED <<current_f, current_s, full_list>>
                 ELSE /\ current_f' = fields[1]
                      /\ current_s' = fields[2]
                      /\ full_list' = Append(full_list,
                                             [image |-> fields[1], label |-> fields[2]])
                      /\ pc' = "reading"
                      /\ UNCHANGED stdout
    /\ UNCHANGED <<disk, result>>
    /\ UNCHANGED <<ksVars, lossVars, trainVars, engineVars, evalVars, mainVars>>

\* lines 93-110: the loop body on the next line of the file
ReadLine ==
    /\ pc = "reading"
    /\ Len(data) < MaxLines
    /\ MoreLines(data)
    /\ \E raw \in RawLines :
          LET line == StripNewline(raw)
              fields == Split(line)
          IN  /\ data' = Append(data, raw)
              /\ IF Len(fields) # 2
                 THEN \* ValueError: lines 99-105
                      /\ stdout' = stdout \o Diagnostic
                      /\ pc' = "exit"
                      /\ UNCHANGED <<current_f, current_s, full_list>>
                 ELSE /\ current_f' = fields[1]
                      /\ current_s' = fields[2]
                      /\ IF BothAreFiles(fields[1], fields[2])
                         THEN /\ full_list' = Append(full_list,
                                     [image |-> fields[1], label |-> fields[2]])
                              /\ pc' = "reading"
                         ELSE /\ pc' = "FileNotFoundError"
                              /\ UNCHANGED full_list
                      /\ UNCHANGED stdout
    /\ UNCHANGED <<disk, result>>
    /\ UNCHANGED <<ksVars, lossVars, trainVars, engineVars, evalVars, mainVars>>

\* line 111: the file is exhausted
ReturnList ==
    /\ pc = "reading"
    /\ result' = <<full_list>>
    /\ pc' = "returned"
    /\ UNCHANGED <<disk, data, current_f, current_s, full_list, stdout>>
    /\ UNCHANGED <<ksVars, lossVars, trainVars, engineVars, evalVars, mainVars>>

NextFL == ReadLine \/ ReturnList

SpecFL == InitFL /\ [][NextFL]_vars

----------------------------------------------------------------------------
(* run_training: the kernel/stride schedule, lines 393-408. *)

\* the in-plane axes: spacing[:2], patch_size[:2]
NAxes == 2

Axes == 1..NAxes

\* a slip: the first spacing taken for the smallest
FirstSpacing(sp) == sp[1]

\* min(spacings)
MinSpacing(sp) == IF sp[1] <= sp[2] THEN sp[1] ELSE sp[2]

\* line 398: [sp / min(spacings) for sp in spacings]
SpacingRatio(sp) == [a \in Axes |-> Rat(sp[a], MinSpacing(sp))]

\* a slip: the size test made strict (size > 8)
StrideStrictSize(ratio, sz) ==
    [a \in Axes |-> IF RatLE(ratio[a], 2) /\ sz[a].num > 8 * sz[a].den THEN 2 ELSE 1]

\* a slip: the size test left out, so a low-ratio axis is strided at every level
StrideNoSizeTest(ratio, sz) ==
    [a \in Axes |-> IF RatLE(ratio[a], 2) THEN 2 ELSE 1]

\* line 399: [2 if ratio <= 2 and size >= 8 else 1 ...]
Stride(ratio, sz) ==
    [a \in Axes |-> IF RatLE(ratio[a], 2) /\ RatGE(sz[a], 8) THEN 2 ELSE 1]

\* a slip: kernel 3 on every axis, whatever its ratio
KernelAlways3(ratio) == [a \in Axes |-> 3]

\* line 400: [3 if ratio <= 2 else 1 for ratio in spacing_ratio]
Kernel(ratio) == [a \in Axes |-> IF RatLE(ratio[a], 2) THEN 3 ELSE 1]

\* line 401: all(s == 1 for s in stride)
AllOnes(s) == \A a \in Axes : s[a] = 1

\* line 403: sizes = [i / j for i, j in zip(sizes, stride)]
NextSizes(sz, s) == [a \in Axes |-> RatDiv(sz[a], s[a])]

\* line 404: spacings = [i * j for i, j in zip(spacings, stride)]
NextSpacings(sp, s) == [a \in Axes |-> sp[a] * s[a]]

\* lines 407-408: len(spacings) * [1], len(spacings) * [3]
Repeat(n, v) == [a \in 1..n |-> v]

\* a slip: the input layer's stride added at the end of the list
InsertInputStrideAtEnd(st, n) == Append(st, Repeat(n, 1))

\* line 407: strides.insert(0, len(spacings) * [1])
InsertInputStride(st, n) == <<Repeat(n, 1)>> \o st

\* line 408: kernels.append(len(spacings) * [3])
AppendBottleneckKernel(ks, n) == Append(ks, Repeat(n, 3))

\* lines 394-396
StartDerivation ==
    /\ spacings = spacing
    /\ sizes = [a \in Axes |-> Rat(patch_size[a], 1)]
    /\ strides = <<>>
    /\ kernels = <<>>
    /\ spacing_ratio = <<>>
    /\ stride = <<>>
    /\ kernel = <<>>

InitKS ==
    /\ pc = "loop"
    /\ IdleFL
    /\ IdleLoss
    /\ IdleTrain
    /\ IdleEngine
    /\ IdleEval
    /\ IdleMain
    /\ spacing \in (1..MaxSpacing) \X (1..MaxSpacing)
    /\ patch_size \in (1..MaxSize) \X (1..MaxSize)
    /\ StartDerivation
    /\ run = 1
    /\ first = <<>>
    /\ sweep = 0

\* lines 397-408: one pass of the while loop; the pass that breaks also runs
\* the two statements after the loop.  Line 398 divides by min(spacings):
\* when that is 0 the division raises ZeroDivisionError.
WhileLoop ==
    /\ pc = "loop"
    /\ IF MinSpacing(spacings) = 0
       THEN /\ pc' = "ZeroDivisionError"
            /\ UNCHANGED <<spacing_ratio, stride, kernel, strides, kernels, sizes, spacings>>
       ELSE LET ratio == SpacingRatio(spacings)
                s == Stride(ratio, sizes)
                k == Kernel(ratio)
            IN  /\ spacing_ratio' = ratio
                /\ stride' = s
                /\ kernel' = k
                /\ IF AllOnes(s)
                   THEN /\ strides' = InsertInputStride(strides, Len(spacings))
                        /\ kernels' = AppendBottleneckKernel(kernels, Len(spacings))
                        /\ pc' = "built"
                        /\ UNCHANGED <<sizes, spacings>>
                   ELSE /\ Len(strides) < MaxLevels
                        /\ sizes' = NextSizes(sizes, s)
                        /\ spacings' = NextSpacings(spacings, s)
                        /\ kernels' = Append(kernels, k)
                        /\ strides' = Append(strides, s)
                        /\ pc' = "loop"
    /\ UNCHANGED <<spacing, patch_size, run, first, sweep>>
    /\ UNCHANGED <<flVars, lossVars, trainVars, engineVars, evalVars, mainVars>>

\* the derivation run a second time on the same configuration
Rerun ==
    /\ pc = "built"
    /\ run = 1
    /\ first' = <<strides, kernels>>
    /\ run' = 2
    /\ spacings' = spacing
    /\ sizes' = [a \in Axes |-> Rat(patch_size[a], 1)]
    /\ strides' = <<>>
    /\ kernels' = <<>>
    /\ spacing_ratio' = <<>>
    /\ stride' = <<>>
    /\ kernel' = <<>>
    /\ pc' = "loop"
    /\ UNCHANGED <<spacing, patch_size, sweep>>
    /\ UNCHANGED <<flVars, lossVars, trainVars, engineVars, evalVars, mainVars>>

NextKS == WhileLoop

SpecKS == InitKS /\ [][NextKS]_vars

NextTwice == WhileLoop \/ Rerun

FairKS == InitKS /\ [][NextTwice]_vars /\ WF_vars(NextTwice)

(* The derivation on degenerate configurations: a spacing of 0 or a         *)
(* negative in-plane size.  They are derived one after the other, each from *)
(* line 394 on; the sweep ends when the last of them has stopped.           *)

\* the spacings 0..MaxSpacing and the sizes -MaxNegSize..MaxNegSize, numbered
SpacingValues == MaxSpacing + 1

SizeValues == 2 * MaxNegSize + 1

NInputs == SpacingValues * SpacingValues * SizeValues * SizeValues

\* configuration number i, of 0..NInputs-1
InputNo(i) ==
    [spacing |-> <<i % SpacingValues, (i \div SpacingValues) % SpacingValues>>,
     patch_size |->
        <<((i \div (SpacingValues * SpacingValues)) % SizeValues) - MaxNegSize,
          (i \div (SpacingValues * SpacingValues * SizeValues)) - MaxNegSize>>]

Degenerate(sp, ps) == sp[1] = 0 \/ sp[2] = 0 \/ ps[1] < 0 \/ ps[2] < 0

\* the first degenerate configuration from number i on, NInputs if there is none
RECURSIVE NextDegenerate(_)
NextDegenerate(i) ==
    IF i >= NInputs THEN NInputs
    ELSE IF Degenerate(InputNo(i).spacing, InputNo(i).patch_size) THEN i
    ELSE NextDegenerate(i + 1)

InitSweep ==
    /\ pc = "loop"
    /\ IdleFL
    /\ IdleLoss
    /\ IdleTrain
    /\ IdleEngine
    /\ IdleEval
    /\ IdleMain
    /\ sweep = NextDegenerate(0)
    /\ spacing = InputNo(sweep).spacing
    /\ patch_size = InputNo(sweep).patch_size
    /\ StartDerivation
    /\ run = 1
    /\ first = <<>>

\* the derivation has stopped: the next degenerate configuration is derived
NextInput ==
    /\ pc \in {"built", "ZeroDivisionError"}
    /\ LET n == NextDegenerate(sweep + 1)
       IN  IF n >= NInputs
           THEN /\ pc' = "swept"
                /\ UNCHANGED <<ksVars>>
           ELSE /\ sweep' = n
                /\ spacing' = InputNo(n).spacing
                /\ patch_size' = InputNo(n).patch_size
                /\ spacings' = InputNo(n).spacing
                /\ sizes' = [a \in Axes |-> Rat(InputNo(n).patch_size[a], 1)]
                /\ strides' = <<>>
                /\ kernels' = <<>>
                /\ spacing_ratio' = <<>>
                /\ stride' = <<>>
                /\ kernel' = <<>>
                /\ pc' = "loop"
                /\ UNCHANGED <<run, first>>
    /\ UNCHANGED <<flVars, lossVars, trainVars, engineVars, evalVars, mainVars>>

NextSweep == WhileLoop \/ NextInput

SweepKS == InitSweep /\ [][NextSweep]_vars /\ WF_vars(NextSweep)

----------------------------------------------------------------------------
(* choose_loss_function, lines 114-182.  A loss is the constructor called   *)
(* and the keyword arguments passed to it; an argument that is not passed   *)
(* is left to the constructor and is no key of kwargs.                      *)

RecognizedLossTypes == {"dynDiceCELoss", "dynDiceCELoss_batch", "Batch_Dice", "Dice_Only"}

\* loss-type strings the function does not know
OtherLossTypes == {"DiceCELoss", "dice_only", ""}

\* line 156: smooth_num = 1e-5, in units of 1e-5
SmoothTerm == 1

\* line 141: pow = 1.0
DefaultPow == 1

\* a slip: the test made n >= 1
ActivationFromOne(n) ==
    IF n >= 1 THEN [sigmoid |-> FALSE, softmax |-> TRUE]
    ELSE [sigmoid |-> TRUE, softmax |-> FALSE]

\* lines 136-140: do_sigmoid, do_softmax
Activation(n) ==
    IF n > 1 THEN [sigmoid |-> FALSE, softmax |-> TRUE]
    ELSE [sigmoid |-> TRUE, softmax |-> FALSE]

\* lines 141-143
PowDice(cfg) == IF "pow_dice" \in DOMAIN cfg THEN cfg["pow_dice"] ELSE DefaultPow

DiceCELoss(kw) == [class |-> "DiceCELoss", kwargs |-> kw]

DiceLossExtended(kw) == [class |-> "DiceLossExtended", kwargs |-> kw]

\* a slip: the batch variant built like the plain one
SelectLossBatchForgotten(loss_type, sig, soft, pw) ==
    CASE loss_type \in {"dynDiceCELoss", "dynDiceCELoss_batch"} ->
            DiceCELoss([pow |-> pw])
      [] loss_type = "Batch_Dice" ->
            DiceLossExtended([sigmoid |-> sig, softmax |-> soft,
                              smooth_num |-> SmoothTerm, smooth_den |-> SmoothTerm,
                              squared_pred |-> FALSE, batch_version |-> TRUE])
      [] loss_type = "Dice_Only" ->
            DiceLossExtended([sigmoid |-> sig, softmax |-> soft,
                              smooth_num |-> 0, smooth_den |-> 0,
                              squared_pred |-> FALSE, batch_version |-> FALSE])

\* lines 147-178: the loss of a recognized loss type
SelectLoss(loss_type, sig, soft, pw) ==
    CASE loss_type = "dynDiceCELoss" ->
            DiceCELoss([pow |-> pw])
      [] loss_type = "dynDiceCELoss_batch" ->
            DiceCELoss([batch_version |-> TRUE, pow |-> pw])
      [] loss_type = "Batch_Dice" ->
            DiceLossExtended([sigmoid |-> sig, softmax |-> soft,
                              smooth_num |-> SmoothTerm, smooth_den |-> SmoothTerm,
                              squared_pred |-> FALSE, batch_version |-> TRUE])
      [] loss_type = "Dice_Only" ->
            DiceLossExtended([sigmoid |-> sig, softmax |-> soft,
                              smooth_num |-> 0, smooth_den |-> 0,
                              squared_pred |-> FALSE, batch_version |-> FALSE])

\* the arguments: a channel count and a training configuration, with or
\* without the optional key pow_dice
InitLoss ==
    /\ pc = "choose_loss"
    /\ number_out_channels \in 1..MaxChannels
    /\ config_dict \in
          {[loss_type |-> t] : t \in RecognizedLossTypes \cup OtherLossTypes}
          \cup {[loss_type |-> t, pow_dice |-> p] :
                    t \in RecognizedLossTypes \cup OtherLossTypes, p \in 1..MaxPow}
    /\ do_sigmoid = FALSE
    /\ do_softmax = FALSE
    /\ pow = 0
    /\ loss_fn = NoLoss
    /\ IdleFL
    /\ IdleKS
    /\ IdleTrain
    /\ IdleEngine
    /\ IdleEval
    /\ IdleMain

\* lines 135-182
ChooseLoss ==
    /\ pc = "choose_loss"
    /\ LET act == Activation(number_out_channels)
           pw == PowDice(config_dict)
           loss_type == config_dict["loss_type"]
       IN  /\ do_sigmoid' = act.sigmoid
           /\ do_softmax' = act.softmax
           /\ pow' = pw
           /\ IF loss_type \in RecognizedLossTypes
              THEN /\ loss_fn' = SelectLoss(loss_type, act.sigmoid, act.softmax, pw)
                   /\ pc' = "loss_chosen"
              ELSE /\ pc' = "IOError"
                   /\ UNCHANGED loss_fn
    /\ UNCHANGED <<number_out_channels, config_dict>>
    /\ UNCHANGED <<flVars, ksVars, trainVars, engineVars, evalVars, mainVars>>

NextLoss == ChooseLoss

SpecLoss == InitLoss /\ [][NextLoss]_vars

----------------------------------------------------------------------------
(* DynUNetTrainer._iteration, lines 535-557, as the trainer is built on     *)
(* lines 559-571: amp=False, so lines 553-556 run.  A tensor is its name    *)
(* and its spatial shape (shape[2:]); self.loss_function returns a scalar,  *)
(* any value of 0..MaxLossVal, whose mean() is itself.                      *)

Shapes == {<<d, d>> : d \in 1..MaxDim}

\* a / b + c / d, in lowest terms (the denominators are powers of 2)
RECURSIVE RatNorm(_)
RatNorm(q) ==
    IF q.num % 2 = 0 /\ q.den % 2 = 0 THEN RatNorm(Rat(q.num \div 2, q.den \div 2))
    ELSE q

RatAdd(p, q) == RatNorm(Rat(p.num * q.den + q.num * p.den, p.den * q.den))

\* w * v for a rational w and an integer v
RatScale(w, v) == RatNorm(Rat(w.num * v, w.den))

\* torch.nn.functional.interpolate(label, size): the label at another shape
Interpolate(label, shape) == [label EXCEPT !.shape = shape]

\* line 540: [label] + [interpolate(label, pred.shape[2:]) for pred in preds[1:]]
Labels(preds, label) ==
    <<label>> \o [i \in 1..(Len(preds) - 1) |-> Interpolate(label, preds[i + 1].shape)]

\* a slip: the weights counted from 0.5
WeightFromHalf(i) == Rat(1, 2 ^ (i + 1))

\* line 541: 0.5 ** i
Weight(i) == Rat(1, 2 ^ i)

\* line 541: sum([...]) of the weighted values, from 0
RECURSIVE SumLoss(_)
SumLoss(calls) ==
    IF calls = <<>> THEN Rat(0, 1)
    ELSE RatAdd(SumLoss(Front(calls)),
                RatScale(Weight(Len(calls) - 1), Last(calls).value))

(* The network and the optimizer, as far as the calls of an iteration act   *)
(* on them.  network.grad tells what the parameters' .grad holds: "none"    *)
(* before any backward pass, "stale" the gradient an earlier iteration      *)
(* left, "zero" after zero_grad(), "batch" this batch's gradient alone,     *)
(* "mixed" this batch's gradient accumulated onto an older one.              *)
(* network.params counts the updates of the parameters; optimizer.applied   *)
(* is the gradient the last step() applied.                                 *)

Modes == {"train", "eval"}

\* the state an iteration can find: a new network, or one that earlier
\* training and validation iterations used
Networks == {[mode |-> md, grad |-> g, params |-> 0] : md \in Modes, g \in {"none", "stale"}}

NewOptimizer == [steps |-> 0, applied |-> "none"]

\* one call on the objects s = [network, optimizer]
Apply(call, s) ==
    CASE call = "train" -> [s EXCEPT !.network.mode = "train"]
      [] call = "eval" -> [s EXCEPT !.network.mode = "eval"]
      [] call = "zero_grad" -> [s EXCEPT !.network.grad = "zero"]
      [] call = "backward" ->
            [s EXCEPT !.network.grad = IF @ \in {"none", "zero"} THEN "batch" ELSE "mixed"]
      [] call = "step" ->
            [s EXCEPT !.network.params = @ + 1,
                      !.optimizer.steps = @ + 1,
                      !.optimizer.applied = s.network.grad]
      [] OTHER -> s

\* the calls made one after the other
RECURSIVE RunCalls(_, _)
RunCalls(s, calls) ==
    IF calls = <<>> THEN s ELSE RunCalls(Apply(calls[1], s), Tail(calls))

\* a slip: the gradients zeroed after the backward pass
TrainerCallsZeroLate(m) ==
    <<"train", "inferer">> \o [i \in 1..m |-> "loss_function"]
        \o <<"backward", "zero_grad", "step">>

\* lines 543-544 and 553-556, with m calls of self.loss_function on line 541
TrainerCalls(m) ==
    <<"train", "zero_grad", "inferer">> \o [i \in 1..m |-> "loss_function"]
        \o <<"backward", "step">>

InitEngine ==
    /\ network \in Networks
    /\ optimizer = NewOptimizer
    /\ trace = <<>>

InitTrain ==
    /\ pc = "train"
    /\ predictions = <<>>
    /\ targets = <<>>
    /\ loss_calls = <<>>
    /\ loss = <<>>
    /\ InitEngine
    /\ IdleFL
    /\ IdleKS
    /\ IdleLoss
    /\ IdleEval
    /\ IdleMain

\* lines 536-557: one training batch
TrainIteration ==
    /\ pc = "train"
    /\ \E n \in 1..MaxHeads :
       \E shape \in [1..n -> Shapes], tshape \in Shapes, value \in [1..n -> 0..MaxLossVal] :
          LET preds == [i \in 1..n |-> [name |-> "pred", head |-> i - 1, shape |-> shape[i]]]
              label == [name |-> "label", shape |-> tshape]
              labels == Labels(preds, label)
              m == IF Len(labels) < n THEN Len(labels) ELSE n
              calls == [i \in 1..m |->
                          [pred |-> preds[i], label |-> labels[i], value |-> value[i]]]
          IN  /\ predictions' = preds
              /\ targets' = label
              /\ loss_calls' = calls
              /\ loss' = SumLoss(calls)
              /\ trace' = TrainerCalls(m)
              /\ LET after == RunCalls([network |-> network, optimizer |-> optimizer],
                                       TrainerCalls(m))
                 IN  /\ network' = after.network
                     /\ optimizer' = after.optimizer
    /\ pc' = "trained"
    /\ UNCHANGED <<flVars, ksVars, lossVars, evalVars, mainVars>>

NextTrain == TrainIteration

SpecTrain == InitTrain /\ [][NextTrain]_vars

----------------------------------------------------------------------------
(* DynUNetEvaluator._iteration, lines 458-481, as the evaluator is built on *)
(* lines 483-499: amp=False, so line 480 runs.  A tensor is modelled over   *)
(* its axes 2 and 3: a sequence of rows (axis 2), each a sequence of pixels *)
(* (axis 3).  The batch and channel axes are not flipped and are left out.  *)

\* the pixel values drawn
Pixels == {0, 1}

Tensors ==
    UNION {[1..h -> [1..w -> Pixels]] : h \in 1..MaxDim, w \in 1..MaxDim}

Reverse(q) == [i \in 1..Len(q) |-> q[Len(q) + 1 - i]]

\* a slip: axis 3 never flipped
FlipAxis2Only(t, dims) == IF 2 \in dims THEN Reverse(t) ELSE t

\* torch.flip(t, dims)
Flip(t, dims) ==
    LET rows == IF 2 \in dims THEN Reverse(t) ELSE t
    IN  IF 3 \in dims THEN [i \in 1..Len(rows) |-> Reverse(rows[i])] ELSE rows

\* the inferers drawn: two that commute with the flips, two that do not
Inferers == {"identity", "complement", "corner", "top_row"}

\* self.inferer(t, self.network)
Inferer(f, t) ==
    CASE f = "identity" -> t
      [] f = "complement" -> [i \in 1..Len(t) |-> [j \in 1..Len(t[i]) |-> 1 - t[i][j]]]
      [] f = "corner" -> [i \in 1..Len(t) |-> [j \in 1..Len(t[i]) |-> t[1][1]]]
      [] f = "top_row" ->
            [i \in 1..Len(t) |-> [j \in 1..Len(t[i]) |-> IF i = 1 THEN t[i][j] ELSE 0]]

\* line 475: (pred + flip_pred_1 + flip_pred_2 + flip_pred_3) / 4
MeanOfFour(a, b, c, d) ==
    [i \in 1..Len(a) |->
        [j \in 1..Len(a[i]) |-> RatNorm(Rat(a[i][j] + b[i][j] + c[i][j] + d[i][j], 4))]]

\* lines 478-480: network.eval(), then the four calls of _compute_pred
EvaluatorCalls == <<"eval", "inferer", "inferer", "inferer", "inferer">>

InitEval ==
    /\ pc = "validate"
    /\ inputs \in Tensors
    /\ inferer \in Inferers
    /\ infer_calls = <<>>
    /\ pred = <<>>
    /\ InitEngine
    /\ IdleFL
    /\ IdleKS
    /\ IdleLoss
    /\ IdleTrain
    /\ IdleMain

\* lines 459-481: one validation batch
EvalIteration ==
    /\ pc = "validate"
    /\ LET flip_inputs_1 == Flip(inputs, {2})
           flip_inputs_2 == Flip(inputs, {3})
           flip_inputs_3 == Flip(inputs, {2, 3})
           p == Inferer(inferer, inputs)
           flip_pred_1 == Flip(Inferer(inferer, flip_inputs_1), {2})
           flip_pred_2 == Flip(Inferer(inferer, flip_inputs_2), {3})
           flip_pred_3 == Flip(Inferer(inferer, flip_inputs_3), {2, 3})
           after == RunCalls([network |-> network, optimizer |-> optimizer], EvaluatorCalls)
       IN  /\ infer_calls' = <<inputs, flip_inputs_1, flip_inputs_2, flip_inputs_3>>
           /\ pred' = MeanOfFour(p, flip_pred_1, flip_pred_2, flip_pred_3)
           /\ trace' = EvaluatorCalls
           /\ network' = after.network
           /\ optimizer' = after.optimizer
    /\ pc' = "validated"
    /\ UNCHANGED <<inputs, inferer, flVars, ksVars, lossVars, trainVars, mainVars>>

NextEval == EvalIteration

SpecEval == InitEval /\ [][NextEval]_vars

\* one iteration of either engine
InitIteration == InitTrain \/ InitEval

NextIteration == TrainIteration \/ EvalIteration

SpecIteration == InitIteration /\ [][NextIteration]_vars

----------------------------------------------------------------------------
(* The pipeline: __main__, lines 635-662, and run_training, lines 185-578,  *)
(* block by block.  A value that may be None is <<>> for None and <<v>> for *)
(* the value v.  A path is the sequence of its components, or a sequence of *)
(* characters where a file list names it.                                   *)

None == <<>>

Some(v) == <<v>>

\* lines 644-645: the configuration file of the package
DefaultConfigFile == "monai_dynUnet_training_config.yml"

\* the command lines drawn: --config_file and --cache_dir given or not
CommandLines ==
    {[train_files_list |-> "train.txt", valid_files_list |-> "valid.txt",
      out_folder |-> "out", config_file |-> cf, cache_dir |-> cd] :
        cf \in {None, Some("config.yml")}, cd \in {None, Some(<<"cli_cache">>)}}

\* what a path of the command line is: "none" no regular file, "empty" a
\* file of size 0, "file" a file that holds something (a configuration file
\* that is there holds a configuration)
FileSystems ==
    {lists @@ configs :
        lists \in [{"train.txt", "valid.txt"} -> {"none", "empty", "file"}],
        configs \in [{"config.yml", DefaultConfigFile} -> {"none", "file"}]}

\* the paths named in file lists and by model_to_load: a is a file, b is missing
MainDisk == [p \in DiskPaths |-> IF p = <<"a">> THEN "file" ELSE "none"]

\* a key of a configuration section, absent or with one of the values
Optional(key, values) == {<<>>} \cup {key :> v : v \in values}

\* the 'training' sections drawn
TrainingSections ==
    {sl @@ ms @@ ml @@ pd @@
     [loss_type |-> lt, batch_size_train |-> bt, batch_size_valid |-> bv,
      validation_every_n_epochs |-> ve] :
        sl \in Optional("seg_labels", {<<1, 2>>}),
        ms \in Optional("manual_seed", {None, Some(0)}),
        ml \in Optional("model_to_load", {None, Some(<<"a">>), Some(<<"b">>)}),
        pd \in Optional("pow_dice", {MaxPow}),
        lt \in {"Dice_Only", "dice_only"},
        bt \in 1..MaxBatch, bv \in 1..MaxBatch, ve \in 1..MaxEveryN}

\* the 'output' sections drawn
OutputSections == Optional("cache_dir", {None, Some(<<"cache">>)})

\* the lines of a file list that holds something
GoodLine == <<"a", Comma, "a", NL>>

MalformedLine == <<"a", NL>>

MissingLine == <<"a", Comma, "b", NL>>

FileLists ==
    {<<GoodLine>>, <<GoodLine, GoodLine>>, <<MalformedLine>>, <<GoodLine, MalformedLine>>,
     <<MissingLine>>, <<GoodLine, MissingLine>>}

\* a slip: the size of the file not looked at
ListMissing(path) == files[path] = "none"

\* lines 636 and 638: not os.path.isfile(path) or os.path.getsize(path) == 0
ListMissingOrEmpty(path) == files[path] = "none" \/ files[path] = "empty"

\* lines 642-645
ConfigFile == IF args.config_file = None THEN DefaultConfigFile ELSE args.config_file[1]

\* lines 654-659: the output section main hands to run_training
OutputOfMain(section) ==
    (IF args.cache_dir # None THEN "cache_dir" :> args.cache_dir ELSE <<>>)
        @@ ("out_dir" :> args.out_folder) @@ section

\* lines 92-111 on the whole file: the way the function ends and its list
RECURSIVE CreateDataList(_, _)
CreateDataList(lines, list) ==
    IF lines = <<>> THEN [pc |-> "returned", full_list |-> list]
    ELSE LET fields == Split(StripNewline(lines[1]))
         IN  IF Len(fields) # 2 THEN [pc |-> "exit", full_list |-> list]
             ELSE IF BothAreFiles(fields[1], fields[2])
                  THEN CreateDataList(Tail(lines),
                                      Append(list, [image |-> fields[1], label |-> fields[2]]))
                  ELSE [pc |-> "FileNotFoundError", full_list |-> list]

\* line 223
DefaultSegLabels == <<1>>

\* lines 262-264 and 270: <out_dir>/<timestamp>_<out_postfix>/persistent_cache
PersistentCache == <<config.output.out_dir, "timestamp_postfix", "persistent_cache">>

\* a slip: every batch size accepted
BatchSizeAny(b) == b >= 1

\* line 378
BatchSizeSupported(b) == b = 1

\* line 512: len(train_ds) // train_loader.batch_size
EpochLen(n, b) == n \div b

\* lines 517-529
BaseHandlers ==
    <<"LrScheduleHandler", "ValidationHandler", "StatsHandler",
      "TensorBoardStatsHandler", "CheckpointSaver">>

\* run_training's local variables before any is assigned
NewFrame ==
    [seg_labels |-> <<>>, nr_out_channels |-> 0, model_to_load |-> None, seed |-> None,
     out_cache_dir |-> <<>>, train_files |-> <<>>, val_files |-> <<>>,
     validation_every_n_iters |-> 0, train_handlers |-> <<>>]

InitMain ==
    /\ pc = "main"
    /\ args \in CommandLines
    /\ files \in FileSystems
    /\ disk = MainDisk
    /\ config = <<>>
    /\ frame = NewFrame
    /\ list_lines = [train |-> <<>>, valid |-> <<>>]
    /\ log = <<>>
    /\ data = <<>>
    /\ current_f = <<>>
    /\ current_s = <<>>
    /\ full_list = <<>>
    /\ stdout = <<>>
    /\ result = <<>>
    /\ IdleKS
    /\ IdleLoss
    /\ IdleTrain
    /\ IdleEngine
    /\ IdleEval

\* lines 636-639
CheckFileLists ==
    /\ pc = "main"
    /\ log' = Append(log, "file_lists")
    /\ pc' = IF ListMissingOrEmpty(args.train_files_list) THEN "FileNotFoundError"
             ELSE IF ListMissingOrEmpty(args.valid_files_list) THEN "FileNotFoundError"
             ELSE "config_file"
    /\ UNCHANGED <<args, files, config, frame, list_lines>>
    /\ UNCHANGED <<ksVars, flVars, lossVars, trainVars, engineVars, evalVars>>

\* lines 642-662: the configuration file is read and run_training is called
ReadConfigFile ==
    /\ pc = "config_file"
    /\ log' = Append(log, "config_file")
    /\ IF files[ConfigFile] = "none"
       THEN /\ pc' = "FileNotFoundError"
            /\ UNCHANGED config
       ELSE /\ \E training \in TrainingSections, output \in OutputSections :
                  config' = [training |-> training, output |-> OutputOfMain(output)]
            /\ pc' = "run_training"
    /\ UNCHANGED <<args, files, frame, list_lines>>
    /\ UNCHANGED <<ksVars, flVars, lossVars, trainVars, engineVars, evalVars>>

\* lines 220-257
ReadParameters ==
    /\ pc = "run_training"
    /\ log' = Append(log, "parameters")
    /\ LET training == config.training
           labels == IF "seg_labels" \in DOMAIN training THEN training.seg_labels
                     ELSE DefaultSegLabels
           given == IF "model_to_load" \in DOMAIN training
                    THEN training.model_to_load # None ELSE FALSE
           found == IF given THEN Exists(training.model_to_load[1]) ELSE TRUE
       IN  /\ frame' = [frame EXCEPT
                           !.seg_labels = labels,
                           !.nr_out_channels = Len(labels),
                           !.model_to_load = IF given THEN training.model_to_load ELSE None,
                           !.seed = IF found /\ "manual_seed" \in DOMAIN training
                                    THEN training.manual_seed ELSE None]
           /\ pc' = IF found THEN "output_dir" ELSE "FileNotFoundError"
    /\ UNCHANGED <<args, files, config, list_lines>>
    /\ UNCHANGED <<ksVars, flVars, lossVars, trainVars, engineVars, evalVars>>

\* lines 262-272: Path(None) raises TypeError
SetupOutputDir ==
    /\ pc = "output_dir"
    /\ log' = Append(log, "output_dir")
    /\ frame' = [frame EXCEPT
                    !.out_cache_dir = IF "cache_dir" \in DOMAIN config.output
                                      THEN config.output.cache_dir
                                      ELSE Some(PersistentCache)]
    /\ pc' = IF frame'.out_cache_dir = None THEN "TypeError" ELSE "train_files"
    /\ UNCHANGED <<args, files, config, list_lines>>
    /\ UNCHANGED <<ksVars, flVars, lossVars, trainVars, engineVars, evalVars>>

\* line 280: the training list is read from its file, which holds something
LoadTrainFiles ==
    /\ pc = "train_files"
    /\ log' = Append(log, "train_files")
    /\ \E lines \in FileLists :
          LET read == CreateDataList(lines, <<>>)
          IN  /\ list_lines' = [list_lines EXCEPT !.train = lines]
              /\ IF read.pc = "returned"
                 THEN /\ frame' = [frame EXCEPT !.train_files = read.full_list]
                      /\ pc' = "val_files"
                 ELSE /\ pc' = read.pc
                      /\ UNCHANGED frame
    /\ UNCHANGED <<args, files, config>>
    /\ UNCHANGED <<ksVars, flVars, lossVars, trainVars, engineVars, evalVars>>

\* line 283
LoadValidFiles ==
    /\ pc = "val_files"
    /\ log' = Append(log, "val_files")
    /\ \E lines \in FileLists :
          LET read == CreateDataList(lines, <<>>)
          IN  /\ list_lines' = [list_lines EXCEPT !.valid = lines]
              /\ IF read.pc = "returned"
                 THEN /\ frame' = [frame EXCEPT !.val_files = read.full_list]
                      /\ pc' = "loaders"
                 ELSE /\ pc' = read.pc
                      /\ UNCHANGED frame
    /\ UNCHANGED <<args, files, config>>
    /\ UNCHANGED <<ksVars, flVars, lossVars, trainVars, engineVars, evalVars>>

\* lines 286-387: the transforms and the two loaders
CreateLoaders ==
    /\ pc = "loaders"
    /\ log' = Append(log, "loaders")
    /\ pc' = IF BatchSizeSupported(config.training.batch_size_valid) THEN "network"
             ELSE "Exception"
    /\ UNCHANGED <<args, files, config, frame, list_lines>>
    /\ UNCHANGED <<ksVars, flVars, lossVars, trainVars, engineVars, evalVars>>

\* lines 393-426: the network is built (the configured spacing and in-plane
\* size are valid, so lines 393-408 end) and choose_loss_function is called
PrepareNetwork ==
    /\ pc = "network"
    /\ log' = Append(log, "network")
    /\ number_out_channels' = frame.nr_out_channels
    /\ config_dict' = config.training
    /\ pc' = "choose_loss"
    /\ UNCHANGED <<do_sigmoid, do_softmax, pow, loss_fn>>
    /\ UNCHANGED <<args, files, config, frame, list_lines>>
    /\ UNCHANGED <<ksVars, flVars, trainVars, engineVars, evalVars>>

\* lines 429-571: optimizer, evaluator, handlers and trainer.  What attaching
\* a ValidationHandler of interval 0 does is settled outside this file: the
\* construction goes through or raises.
PrepareTrainer ==
    /\ pc = "loss_chosen"
    /\ log # <<>>
    /\ log' = Append(log, "trainer")
    /\ frame' = [frame EXCEPT
                    !.validation_every_n_iters =
                        config.training.validation_every_n_epochs
                            * EpochLen(Len(frame.train_files), config.training.batch_size_train),
                    !.train_handlers =
                        IF frame.model_to_load # None
                        THEN Append(BaseHandlers, "CheckpointLoader") ELSE BaseHandlers]
    /\ \/ pc' = "trainer"
       \/ /\ frame'.validation_every_n_iters = 0
          /\ pc' = "ValueError"
    /\ UNCHANGED <<args, files, config, list_lines>>
    /\ UNCHANGED <<ksVars, flVars, lossVars, trainVars, engineVars, evalVars>>

\* lines 576-578
RunTrainer ==
    /\ pc = "trainer"
    /\ log' = Append(log, "trainer.run")
    /\ pc' = "Done!"
    /\ UNCHANGED <<args, files, config, frame, list_lines>>
    /\ UNCHANGED <<ksVars, flVars, lossVars, trainVars, engineVars, evalVars>>

NextMain ==
    \/ CheckFileLists
    \/ ReadConfigFile
    \/ ReadParameters
    \/ SetupOutputDir
    \/ LoadTrainFiles
    \/ LoadValidFiles
    \/ CreateLoaders
    \/ PrepareNetwork
    \/ ChooseLoss
    \/ PrepareTrainer
    \/ RunTrainer

SpecMain == InitMain /\ [][NextMain]_vars

----------------------------------------------------------------------------
(* Claims about the kernel/stride schedule. *)

\* ratio <= 2 on axis a, stated on the spacings: sp[a] / min(sp) <= 2
LowRatio(sp, a) == \A b \in Axes : sp[a] <= 2 * sp[b]

\* size >= 8
AtLeast8(q) == q.num >= 8 * q.den

\* q2 = q1 / 2
IsHalf(q2, q1) == 2 * q2.num * q1.den = q1.num * q2.den

\* the level computed by one pass of the loop, from the values before the pass
C1_LevelRule ==
    \A a \in Axes :
        /\ (\A c \in Axes : spacings[a] <= spacings[c]) =>
               \A b \in Axes :
                   spacing_ratio'[b].num * spacings[a] = spacings[b] * spacing_ratio'[b].den
        /\ stride'[a] = (IF LowRatio(spacings, a) /\ AtLeast8(sizes[a]) THEN 2 ELSE 1)
        /\ kernel'[a] = (IF LowRatio(spacings, a) THEN 3 ELSE 1)
        /\ pc' = "loop" =>
              /\ strides' = Append(strides, stride')
              /\ kernels' = Append(kernels, kernel')
              /\ IF stride'[a] = 2
                 THEN IsHalf(sizes'[a], sizes[a]) /\ spacings'[a] = 2 * spacings[a]
                 ELSE sizes'[a] = sizes[a] /\ spacings'[a] = spacings[a]

\* C1: at every level, per axis, ratio = spacing / min spacing; stride 2 exactly
\* when ratio <= 2 and size >= 8, else 1; kernel 3 exactly when ratio <= 2, else 1;
\* after a recorded level the size is halved and the spacing doubled on exactly
\* the strided axes, the others unchanged.
C1_PerLevel == [][pc = "loop" => C1_LevelRule]_vars

\* a recorded level that strides axis 1 only, because axis 2 is smaller than 8,
\* and still gives both axes kernel 3
C1_Witness ==
    /\ pc = "loop"
    /\ stride = <<2, 1>>
    /\ kernel = <<3, 3>>
    /\ spacings[1] = 2 * spacing[1]
    /\ spacings[2] = spacing[2]

StrideEntries == {<<1, 1>>, <<2, 1>>, <<1, 2>>, <<2, 2>>}

\* C2: the derived schedule has a non-empty stride list starting with [1,1], whose
\* entries are [1,1], [2,1], [1,2] or [2,2] and, after the first, never [1,1];
\* as many kernels as strides (one more than the recorded levels); last kernel [3,3].
C2_Schedule ==
    pc = "built" =>
        /\ Len(strides) >= 1
        /\ strides[1] = <<1, 1>>
        /\ \A i \in 1..Len(strides) : strides[i] \in StrideEntries
        /\ \A i \in 2..Len(strides) : strides[i] # <<1, 1>>
        /\ Len(kernels) = (Len(strides) - 1) + 1
        /\ kernels[Len(kernels)] = <<3, 3>>

\* the schedule of spacing [1.0, 1.0] and patch [64, 64]
C2_Witness ==
    /\ pc = "built"
    /\ spacing = <<1, 1>>
    /\ patch_size = <<64, 64>>
    /\ strides = <<<<1, 1>>, <<2, 2>>, <<2, 2>>, <<2, 2>>, <<2, 2>>>>
    /\ kernels = <<<<3, 3>>, <<3, 3>>, <<3, 3>>, <<3, 3>>, <<3, 3>>>>

Other(a) == 3 - a

\* C7: at a level where an axis's ratio exceeds 2 that axis gets stride 1 and
\* kernel 1, while the other axis gets kernel 3 and, if its size is >= 8,
\* stride 2; with an anisotropic spacing (one more than twice the other) and a
\* patch of at least 8 on the finer axis, the first recorded level is such an
\* asymmetric one ([2,1] with kernel [3,1], or its mirror image).
C7_Anisotropic ==
    /\ [][pc = "loop" =>
            \A a \in Axes : spacings[a] > 2 * spacings[Other(a)] =>
                /\ stride'[a] = 1
                /\ kernel'[a] = 1
                /\ kernel'[Other(a)] = 3
                /\ AtLeast8(sizes[Other(a)]) => stride'[Other(a)] = 2]_vars
    /\ [](pc = "built" =>
            \A a \in Axes :
                (spacing[a] > 2 * spacing[Other(a)] /\ patch_size[Other(a)] >= 8) =>
                    /\ strides[2] = [b \in Axes |-> IF b = a THEN 1 ELSE 2]
                    /\ kernels[1] = [b \in Axes |-> IF b = a THEN 1 ELSE 3])

\* the schedule of spacing [1.0, 3.0] and patch [64, 64]
C7_Witness ==
    /\ pc = "built"
    /\ spacing = <<1, 3>>
    /\ patch_size = <<64, 64>>
    /\ strides = <<<<1, 1>>, <<2, 1>>, <<2, 2>>, <<2, 2>>, <<2, 2>>, <<1, 2>>>>
    /\ kernels = <<<<3, 1>>, <<3, 3>>, <<3, 3>>, <<3, 3>>, <<3, 3>>, <<3, 3>>>>

----------------------------------------------------------------------------
(* Claims about create_data_list_of_dictionaries. *)

\* a line of the file without its trailing newline
Content(raw) == IF raw # <<>> /\ Last(raw) = NL THEN Front(raw) ELSE raw

CommaCount(text) == Cardinality({i \in 1..Len(text) : text[i] = Comma})

\* the place of the comma of a text that has one
CommaAt(text) == CHOOSE i \in 1..Len(text) : text[i] = Comma

TextBefore(text) == SubSeq(text, 1, CommaAt(text) - 1)

TextAfter(text) == SubSeq(text, CommaAt(text) + 1, Len(text))

\* the path names something on disk, a file or a directory
OnDisk(path) == path \in DOMAIN disk /\ disk[path] \in {"file", "dir"}

\* the path names a regular file
RegularFile(path) == path \in DOMAIN disk /\ disk[path] = "file"

\* the parser has stopped, one way or another
Stopped == pc \in {"exit", "FileNotFoundError", "returned"}

\* one {image, label} entry per line read, in file order
EntryPerLine ==
    [k \in 1..Len(data) |->
        [image |-> TextBefore(Content(data[k])), label |-> TextAfter(Content(data[k]))]]

\* C4 as stated: every line with exactly one comma and both paths existing on
\* disk gives the list of one entry per line, in file order.
C4_ExistingPaths ==
    (/\ Stopped
     /\ \A k \in 1..Len(data) :
           /\ CommaCount(Content(data[k])) = 1
           /\ OnDisk(TextBefore(Content(data[k])))
           /\ OnDisk(TextAfter(Content(data[k]))))
    => (pc = "returned" /\ result = <<EntryPerLine>>)

\* C4, amended: every line with exactly one comma and both paths naming regular
\* files gives the list of one entry per line, in file order, entry k holding the
\* text before the comma of line k as image and the text after it, without the
\* newline, as label.
C4_ExistingFiles ==
    (/\ Stopped
     /\ \A k \in 1..Len(data) :
           /\ CommaCount(Content(data[k])) = 1
           /\ RegularFile(TextBefore(Content(data[k])))
           /\ RegularFile(TextAfter(Content(data[k]))))
    => (pc = "returned" /\ result = <<EntryPerLine>>)

\* a two-line file, the last line without a newline, returned as two entries
C4_Witness ==
    /\ pc = "returned"
    /\ data = << <<"a", ",", "b", NL>>, <<"b", ",", "a">> >>
    /\ result = << << [image |-> <<"a">>, label |-> <<"b">>],
                      [image |-> <<"b">>, label |-> <<"a">>] >> >>

\* C5: a line without exactly one comma (none, as in a blank line, or two or
\* more) prints the diagnostic and exits; no FileNotFoundError, no list returned.
C5_MalformedLine ==
    data # <<>> =>
        (CommaCount(Content(Last(data))) # 1 =>
            /\ pc = "exit"
            /\ stdout = Diagnostic
            /\ result = <<>>)

\* a blank line after a well-formed one ended the process
C5_Witness ==
    /\ pc = "exit"
    /\ Len(data) = 2
    /\ Last(data) = <<NL>>
    /\ Len(full_list) = 1

\* C6: a line with exactly one comma whose image path or label path is not an
\* existing file raises FileNotFoundError; the pair is not appended and no list
\* is returned.
C6_MissingFile ==
    data # <<>> =>
        ((/\ CommaCount(Content(Last(data))) = 1
          /\ ~(/\ RegularFile(TextBefore(Content(Last(data))))
               /\ RegularFile(TextAfter(Content(Last(data))))))
         => /\ pc = "FileNotFoundError"
            /\ result = <<>>
            /\ stdout = <<>>
            /\ Len(full_list) = Len(data) - 1)

\* the second line names an image that is a file and a label that is missing
C6_Witness ==
    /\ pc = "FileNotFoundError"
    /\ Len(data) = 2
    /\ RegularFile(current_f)
    /\ ~OnDisk(current_s)
    /\ Len(full_list) = 1

\* the line is one the parser accepts
GoodEntry(raw) ==
    /\ CommaCount(Content(raw)) = 1
    /\ RegularFile(TextBefore(Content(raw)))
    /\ RegularFile(TextAfter(Content(raw)))

\* one {image, label} entry for each of the first n lines read
Entries(n) ==
    [k \in 1..n |->
        [image |-> TextBefore(Content(data[k])), label |-> TextAfter(Content(data[k]))]]

\* where the parser is, at every moment, as C16 has it
FirstOffendingLine ==
    /\ pc \in {"exit", "FileNotFoundError"} =>
          /\ data # <<>>
          /\ \A k \in 1..(Len(data) - 1) : GoodEntry(data[k])
          /\ ~GoodEntry(Last(data))
          /\ full_list = Entries(Len(data) - 1)
          /\ pc = "exit" <=> CommaCount(Content(Last(data))) # 1
          /\ result = <<>>
    /\ pc \in {"reading", "returned"} =>
          /\ \A k \in 1..Len(data) : GoodEntry(data[k])
          /\ full_list = Entries(Len(data))

\* C16: the lines are examined in file order, one at a time, and the
\* parser stops at the first offending line: all lines before it were
\* accepted, it alone decides between exit() (not exactly two fields, whatever
\* its fields name) and FileNotFoundError (two fields, one not a file), and
\* once stopped the parser examines no further line.
C16_FirstOffendingLine ==
    /\ []FirstOffendingLine
    /\ [][/\ ~Stopped
          /\ Len(data') <= Len(data) + 1
          /\ SubSeq(data', 1, Len(data)) = data]_vars

\* the second line has two commas and names no file: the parser exits
C16_Witness ==
    /\ pc = "exit"
    /\ Len(data) = 2
    /\ CommaCount(Content(data[2])) = 2
    /\ Len(full_list) = 1

----------------------------------------------------------------------------
(* Claims about choose_loss_function. *)

LossType == config_dict["loss_type"]

\* C8: each of the four recognized loss types gives a loss, and the four losses
\* of one channel count and pow_dice are pairwise distinct; every other loss
\* type ends in IOError with no loss function.
C8_LossSelection ==
    /\ pc = "loss_chosen" =>
          /\ LossType \in RecognizedLossTypes
          /\ loss_fn # NoLoss
          /\ loss_fn.class \in {"DiceCELoss", "DiceLossExtended"}
          /\ \A t \in RecognizedLossTypes \ {LossType} :
                SelectLoss(t, do_sigmoid, do_softmax, pow) # loss_fn
    /\ pc = "IOError" => (LossType \notin RecognizedLossTypes /\ loss_fn = NoLoss)
    /\ pc \in {"loss_chosen", "IOError"} =>
          (pc = "IOError" <=> LossType \in OtherLossTypes)

\* the batch variant of Dice + cross-entropy was chosen
C8_Witness ==
    /\ pc = "loss_chosen"
    /\ LossType = "dynDiceCELoss_batch"
    /\ loss_fn = [class |-> "DiceCELoss", kwargs |-> [batch_version |-> TRUE, pow |-> 1]]
    /\ "pow_dice" \notin DOMAIN config_dict

----------------------------------------------------------------------------
(* Claims about DynUNetTrainer._iteration. *)

\* sum over the calls i = 0..n-1 of 2^(n-1-i) * value_i: the loss times 2^(n-1)
RECURSIVE ScaledSum(_)
ScaledSum(calls) ==
    IF calls = <<>> THEN 0
    ELSE Head(calls).value * 2 ^ (Len(calls) - 1) + ScaledSum(Tail(calls))

\* C10: the loss over n heads is the sum over i = 0..n-1 of 0.5^i * loss(head_i,
\* label_i), one term per head, label_0 the target unchanged and label_i, i >= 1,
\* the target at head_i's shape; for three heads it is
\* loss(head0,label) + 0.5*loss(head1,resized) + 0.25*loss(head2,resized).
C10_DeepSupervisionLoss ==
    pc = "trained" =>
        LET n == Len(predictions)
        IN  /\ Len(loss_calls) = n
            /\ \A i \in 1..n :
                  /\ loss_calls[i].pred = predictions[i]
                  /\ loss_calls[i].label.name = targets.name
                  /\ loss_calls[i].label.shape =
                        (IF i = 1 THEN targets.shape ELSE predictions[i].shape)
            /\ loss.num * 2 ^ (n - 1) = loss.den * ScaledSum(loss_calls)
            /\ n = 3 =>
                  4 * loss.num = loss.den * (4 * loss_calls[1].value
                                             + 2 * loss_calls[2].value
                                             + loss_calls[3].value)

\* three heads of losses 1, 2 and 1 give 1 + 0.5 * 2 + 0.25 * 1 = 9/4, the
\* labels of heads 1 and 2 resized from the target's shape
C10_Witness ==
    /\ pc = "trained"
    /\ Len(predictions) = 3
    /\ targets.shape = <<2, 2>>
    /\ predictions[2].shape = <<1, 1>>
    /\ loss_calls[2].label.shape = <<1, 1>>
    /\ <<loss_calls[1].value, loss_calls[2].value, loss_calls[3].value>> = <<1, 2, 1>>
    /\ loss = Rat(9, 4)

----------------------------------------------------------------------------
(* Claims about the evaluator's iteration. *)

\* the tensor t mirrored along axis 2 (rows) and/or axis 3 (cols), per element
Mirrored(t, rows, cols) ==
    [i \in 1..Len(t) |->
        [j \in 1..Len(t[i]) |->
            t[IF rows THEN Len(t) + 1 - i ELSE i][IF cols THEN Len(t[i]) + 1 - j ELSE j]]]

\* the inferer f commutes with the three flips on the tensor t (an inferer
\* that commutes with them on every tensor does so on t)
CommutesWithFlips(f, t) ==
    \A m \in {<<TRUE, FALSE>>, <<FALSE, TRUE>>, <<TRUE, TRUE>>} :
        Inferer(f, Mirrored(t, m[1], m[2])) = Mirrored(Inferer(f, t), m[1], m[2])

\* C11: a validation batch is inferred exactly four times, on the input and
\* on the input flipped along axis 2, along axis 3 and along both; each
\* flipped prediction is flipped back along the axes of its input and the
\* returned prediction is the element-wise mean of the four; for an inferer
\* that commutes with the flips it equals the prediction on the input itself.
C11_FlipAveraging ==
    pc = "validated" =>
        LET h == Len(inputs)
            w == Len(inputs[1])
            P(k) == Inferer(inferer, infer_calls[k])
        IN  /\ infer_calls = <<inputs, Mirrored(inputs, TRUE, FALSE),
                                Mirrored(inputs, FALSE, TRUE), Mirrored(inputs, TRUE, TRUE)>>
            /\ Cardinality({k \in 1..Len(trace) : trace[k] = "inferer"}) = 4
            /\ \A i \in 1..h : \A j \in 1..w :
                  4 * pred[i][j].num =
                      pred[i][j].den * (P(1)[i][j] + P(2)[h + 1 - i][j]
                                        + P(3)[i][w + 1 - j] + P(4)[h + 1 - i][w + 1 - j])
            /\ CommutesWithFlips(inferer, inputs) =>
                  \A i \in 1..h : \A j \in 1..w : pred[i][j].num = pred[i][j].den * P(1)[i][j]

\* an asymmetric input, inferred by the identity, comes back unchanged
C11_Witness ==
    /\ pc = "validated"
    /\ inferer = "identity"
    /\ inputs # Mirrored(inputs, TRUE, FALSE)
    /\ inputs # Mirrored(inputs, FALSE, TRUE)
    /\ \A i \in 1..Len(inputs) : \A j \in 1..Len(inputs[i]) : pred[i][j] = Rat(inputs[i][j], 1)

\* the number of times the call occurs in the trace
Calls(tr, call) == Cardinality({k \in 1..Len(tr) : tr[k] = call})

\* C17: a training iteration puts the network in train mode, zeroes the
\* gradients, runs the forward pass, computes the deep-supervision loss, runs
\* the backward pass and steps the optimizer, in this order and with exactly
\* one optimizer step, which applies the gradient of this batch alone; a
\* validation iteration puts the network in eval mode and never zeroes
\* gradients, runs a backward pass or steps the optimizer, so it leaves the
\* parameters, the gradients and the optimizer as they were.
C17_IterationSteps ==
    [][/\ pc = "train" =>
             LET m == Len(loss_calls')
             IN  /\ Len(trace') = m + 5
                 /\ trace'[1] = "train"
                 /\ trace'[2] = "zero_grad"
                 /\ trace'[3] = "inferer"
                 /\ \A k \in 4..(m + 3) : trace'[k] = "loss_function"
                 /\ trace'[m + 4] = "backward"
                 /\ trace'[m + 5] = "step"
                 /\ network'.mode = "train"
                 /\ network'.params = network.params + 1
                 /\ optimizer'.steps = optimizer.steps + 1
                 /\ optimizer'.applied = "batch"
       /\ pc = "validate" =>
             /\ trace'[1] = "eval"
             /\ Calls(trace', "zero_grad") = 0
             /\ Calls(trace', "backward") = 0
             /\ Calls(trace', "step") = 0
             /\ network' = [network EXCEPT !.mode = "eval"]
             /\ optimizer' = optimizer]_vars

\* a validation batch done on a network that holds an older gradient
C17_Witness ==
    /\ pc = "validated"
    /\ network = [mode |-> "eval", grad |-> "stale", params |-> 0]
    /\ optimizer = NewOptimizer
    /\ Len(trace) = 5

----------------------------------------------------------------------------
(* Claims about the pipeline. *)

\* the block ran, to its end or to its error
Ran(block) == \E k \in 1..Len(log) : log[k] = block

\* the last block that ran
LastRan == IF log = <<>> THEN "" ELSE Last(log)

\* the key is absent from the section or its value is None
NotConfigured(section, key) ==
    IF key \in DOMAIN section THEN section[key] = None ELSE TRUE

\* the file the configuration is read from, given or the packaged default
UsedConfigFile ==
    IF args.config_file = None THEN DefaultConfigFile ELSE args.config_file[1]

\* the configured model_to_load names nothing on disk
ModelMissing ==
    /\ ~NotConfigured(config.training, "model_to_load")
    /\ disk[config.training.model_to_load[1]] = "none"

\* C12: the program raises a file-not-found error and goes no further if
\* the training list is missing or empty, if the validation list is missing
\* or empty, if the configuration file (given or default) is missing, or if
\* a configured model_to_load does not exist; only when none of these holds
\* does it go on to load data and train.
C12_FileNotFound ==
    /\ Ran("file_lists") /\ (\E l \in {"train.txt", "valid.txt"} : files[l] \in {"none", "empty"})
          => pc = "FileNotFoundError" /\ log = <<"file_lists">>
    /\ Ran("config_file") /\ files[UsedConfigFile] = "none"
          => pc = "FileNotFoundError" /\ log = <<"file_lists", "config_file">>
    /\ Ran("parameters") /\ ModelMissing
          => pc = "FileNotFoundError" /\ log = <<"file_lists", "config_file", "parameters">>
    /\ Ran("train_files") \/ Ran("trainer.run")
          => /\ files["train.txt"] = "file"
             /\ files["valid.txt"] = "file"
             /\ files[UsedConfigFile] = "file"
             /\ ~ModelMissing

\* all four in turn: the lists and the configuration are there, the model is not
C12_Witness ==
    /\ pc = "FileNotFoundError"
    /\ LastRan = "parameters"
    /\ files["train.txt"] = "file"
    /\ files["valid.txt"] = "file"
    /\ args.config_file = None
    /\ config.training.model_to_load = Some(<<"b">>)

\* the ways the pipeline fails
Failures == {"FileNotFoundError", "exit", "TypeError", "Exception", "IOError", "ValueError"}

\* the blocks of the pipeline, in the order of the program text
PipelineOrder ==
    <<"file_lists", "config_file", "parameters", "output_dir", "train_files", "val_files",
      "loaders", "network", "trainer", "trainer.run">>

IsPrefix(a, b) == Len(a) <= Len(b) /\ a = SubSeq(b, 1, Len(a))

\* every line has exactly one comma and names two regular files
WellFormed(lines) ==
    \A k \in 1..Len(lines) :
        /\ CommaCount(Content(lines[k])) = 1
        /\ RegularFile(TextBefore(Content(lines[k])))
        /\ RegularFile(TextAfter(Content(lines[k])))

\* what holds of a run at every moment, as C13 has it
FailFast ==
    /\ Ran("trainer.run") =>
          /\ ~ModelMissing
          /\ list_lines.train # <<>> /\ WellFormed(list_lines.train)
          /\ list_lines.valid # <<>> /\ WellFormed(list_lines.valid)
          /\ config.training.batch_size_valid = 1
          /\ config.training.loss_type \in RecognizedLossTypes
    /\ Ran("loaders") /\ config.training.batch_size_valid # 1
          => pc = "Exception" /\ LastRan = "loaders"
    /\ pc \in Failures => ~Ran("trainer.run")
    /\ IsPrefix(log, PipelineOrder)

\* C13: trainer.run() is reached only if the model_to_load check passed,
\* both file lists were parsed without a malformed line or a missing file,
\* the validation batch size is 1 and the loss type was recognized; any other
\* validation batch size raises an error; after a failure no block of the
\* pipeline runs, and no block runs twice.
C13_FailFast == []FailFast /\ [][pc \notin Failures]_vars

\* a run that reached trainer.run() with a model to load
C13_Witness ==
    /\ pc = "Done!"
    /\ frame.model_to_load = Some(<<"a">>)
    /\ Len(frame.train_files) = 2

\* C14: seg_labels absent gives [1], and the number of output channels is
\* the length of seg_labels; pow_dice absent gives 1.0; manual_seed,
\* model_to_load and cache_dir count as not configured both when the key is
\* absent and when its value is None: no seeding, no checkpoint loader, and
\* the cache in persistent_cache under the timestamped output directory.
C14_Defaults ==
    /\ Ran("parameters") =>
          /\ frame.seg_labels = IF "seg_labels" \in DOMAIN config.training
                                THEN config.training.seg_labels ELSE <<1>>
          /\ frame.nr_out_channels = Len(frame.seg_labels)
    /\ Ran("output_dir") =>
          /\ frame.seed = None <=> NotConfigured(config.training, "manual_seed")
          /\ frame.model_to_load = None <=> NotConfigured(config.training, "model_to_load")
          /\ IF NotConfigured(config.output, "cache_dir")
             THEN /\ pc # "TypeError"
                  /\ frame.out_cache_dir =
                        Some(<<args.out_folder, "timestamp_postfix", "persistent_cache">>)
             ELSE frame.out_cache_dir = config.output.cache_dir
    /\ Ran("trainer") =>
          /\ pow = IF "pow_dice" \in DOMAIN config.training
                   THEN config.training.pow_dice ELSE 1
          /\ (\E k \in 1..Len(frame.train_handlers) :
                    frame.train_handlers[k] = "CheckpointLoader")
                <=> ~NotConfigured(config.training, "model_to_load")

\* len(train_loader): the batches of one epoch of the loader of lines
\* 369-372, which keeps a last batch that is not full
LoaderLen(n, b) == (n + b - 1) \div b

\* C18: validation is triggered every validation_every_n_epochs * floor(N / B)
\* training iterations, and this interval is a positive number of iterations,
\* equal to validation_every_n_epochs complete epochs of the training loader.
C18_EpochBoundary ==
    Ran("trainer") =>
        LET n == Len(frame.train_files)
            b == config.training.batch_size_train
            every == config.training.validation_every_n_epochs
        IN  /\ frame.validation_every_n_iters = every * (n \div b)
            /\ frame.validation_every_n_iters >= 1
            /\ frame.validation_every_n_iters = every * LoaderLen(n, b)

----------------------------------------------------------------------------
(* Claims about the derivation on degenerate configurations. *)

\* C15 as stated: with a spacing of 0 or with negative patch sizes there are
\* inputs on which the while-loop never reaches its break and never stops by
\* any other means; the sweep over these inputs then never gets past such an
\* input and never ends.
C15_LoopsForever == pc # "swept"

\* a finished derivation never strided an axis of negative size
NegativeAxesUnstrided ==
    \A l \in 1..Len(strides) : \A a \in Axes : patch_size[a] < 0 => strides[l][a] = 1

\* C15, amended: with a spacing of 0 the first pass of the loop raises
\* ZeroDivisionError; with negative patch sizes and positive spacings an
\* axis of negative size is never strided and the loop reaches its
\* all-1-stride break; so the derivation stops on every such input.
C15_AlwaysStops ==
    /\ [](pc = "ZeroDivisionError" =>
              (spacing[1] = 0 \/ spacing[2] = 0) /\ strides = <<>> /\ spacings = spacing)
    /\ [](pc = "built" => spacing[1] > 0 /\ spacing[2] > 0 /\ NegativeAxesUnstrided)
    /\ <>(pc = "swept")

\* a negative size on one axis, the other axis strided once before the break
C15_Witness ==
    /\ pc = "built"
    /\ sweep > 0
    /\ patch_size[1] < 0
    /\ strides = <<<<1, 1>>, <<1, 2>>>>

====
